---------------------------- MODULE Spec2Model ----------------------------
(***************************************************************************)
(* Test Evidence Helper (src/main.py): the evidence session (step list,    *)
(* cursor, editor), its navigation / capture / ingestion / export handlers *)
(* as they run on the Qt main thread, and the two pure pipelines           *)
(* (ClipboardParser.detect_columns and the row resolution of               *)
(* MainWindow._process_excel_dataframe).                                   *)
(*                                                                         *)
(* Text is a TLA+ string; Len, \o and SubSeq act on it character by        *)
(* character, so strip(), lower() and the substring test are computed, not *)
(* assumed.                                                                *)
(***************************************************************************)
EXTENDS Integers, Sequences, FiniteSets, TLC

VARIABLES
    steps,             \* MainWindow.steps: the list of Step records
    current_step_idx,  \* MainWindow.current_step_idx (0-based)
    session_active,    \* MainWindow.session_active
    actual_edit,       \* text of the QTextEdit MainWindow.actual_edit
    pc,                \* where the main thread is: "idle", or inside the
                       \* nested event loop of a modal dialog of a handler
    df,                \* the DataFrame held by the ingestion in progress
    hotkeys,           \* queued hotkey signals, emitted by the listener thread
    report,            \* what the last step taken told the user ("": nothing)
    ingest_pre,        \* history: <<steps, cursor>> when the ingestion began
    call               \* input and result of a pure-function application

vars == <<steps, current_step_idx, session_active, actual_edit, pc, df,
          hotkeys, report, ingest_pre, call>>

session_vars == <<steps, current_step_idx, session_active, actual_edit, pc,
                  df, hotkeys, report, ingest_pre>>

-----------------------------------------------------------------------------
(* Bounds of the model.                                                    *)

MaxSteps == 2      \* on_next_step appends while the list is shorter
MaxCaptures == 1   \* notes and screenshots held by the steps of the session
MaxTime == 1       \* distinct times at which a screenshot is written
MaxQueue == 1      \* hotkey signals waiting in the main thread's queue
MaxCols == 3       \* columns of a table given to detect_columns
MaxRows == 3       \* rows of a table given to the row resolution
MaxText == 4       \* characters of a text given to the parser
MaxPresses == 2    \* hotkey signals waiting, where their order is checked
MaxNotes == 2      \* notes of a step handed to the exporter
MaxShots == 2      \* screenshots of a step handed to the exporter

-----------------------------------------------------------------------------
(* Python str helpers.                                                     *)

Char(s, i) == SubSeq(s, i, i)

IsSpace(c) == c \in {" ", "\t", "\n", "\r"}

RECURSIVE LStrip(_)
LStrip(s) ==
    IF Len(s) > 0 /\ IsSpace(Char(s, 1)) THEN LStrip(SubSeq(s, 2, Len(s))) ELSE s

RECURSIVE RStrip(_)
RStrip(s) ==
    IF Len(s) > 0 /\ IsSpace(Char(s, Len(s)))
    THEN RStrip(SubSeq(s, 1, Len(s) - 1)) ELSE s

\* str.strip()
Strip(s) == RStrip(LStrip(s))

LowerChar(c) ==
    CASE c = "A" -> "a" [] c = "B" -> "b" [] c = "C" -> "c" [] c = "D" -> "d"
      [] c = "E" -> "e" [] c = "F" -> "f" [] c = "G" -> "g" [] c = "H" -> "h"
      [] c = "I" -> "i" [] c = "J" -> "j" [] c = "K" -> "k" [] c = "L" -> "l"
      [] c = "M" -> "m" [] c = "N" -> "n" [] c = "O" -> "o" [] c = "P" -> "p"
      [] c = "Q" -> "q" [] c = "R" -> "r" [] c = "S" -> "s" [] c = "T" -> "t"
      [] c = "U" -> "u" [] c = "V" -> "v" [] c = "W" -> "w" [] c = "X" -> "x"
      [] c = "Y" -> "y" [] c = "Z" -> "z" [] OTHER -> c

RECURSIVE Lower(_)
\* str.lower()
Lower(s) ==
    IF Len(s) = 0 THEN "" ELSE LowerChar(Char(s, 1)) \o Lower(SubSeq(s, 2, Len(s)))

\* keyword in s
Contains(s, keyword) ==
    \E i \in 1..(Len(s) - Len(keyword) + 1) :
        SubSeq(s, i, i + Len(keyword) - 1) = keyword

-----------------------------------------------------------------------------
(* DataFrame.  A column label is str or not (a numeric header cell of a    *)
(* spreadsheet); text is str(label).  A cell is missing (pd.isna) or holds *)
(* text, str(cell).  A row is the sequence of its cells in column order.   *)

None == [none |-> TRUE]

StrLabel(s) == [isstr |-> TRUE, text |-> s]
IntLabel(s) == [isstr |-> FALSE, text |-> s]

NaN == [na |-> TRUE, text |-> ""]
Cell(s) == [na |-> FALSE, text |-> s]

DataFrame(columns, rows) == [columns |-> columns, rows |-> rows]

\* Positions of the columns that the key (a str) selects: row[key].
Lookup(columns, key) ==
    {j \in 1..Len(columns) : columns[j].isstr /\ columns[j].text = key}


-----------------------------------------------------------------------------
(* ClipboardParser.detect_columns                                          *)

title_keywords ==
    {"step", "title", "test", "case", "action", "description", "name", "summary"}

expected_keywords == {"expected", "result", "outcome", "should"}

actual_keywords == {"actual", "status", "pass", "fail"}

\* columns_lower[j] = str(c).lower().strip()
columns_lower(columns) ==
    [j \in 1..Len(columns) |-> Strip(Lower(columns[j].text))]

\* any(keyword in col_name for keyword in keywords)
AnyKeyword(col_name, keywords) == \E keyword \in keywords : Contains(col_name, keyword)

Matching(columns, keywords) ==
    {j \in 1..Len(columns) : AnyKeyword(columns_lower(columns)[j], keywords)}

Minimum(S) == CHOOSE x \in S : \A y \in S : x <= y
Maximum(S) == CHOOSE x \in S : \A y \in S : x >= y

\* Mutant of FirstMatch: the scan keeps the last match (no break).
LastMatch(columns, keywords) ==
    IF Matching(columns, keywords) = {} THEN None
    ELSE columns[Maximum(Matching(columns, keywords))]

\* for idx, col_name in enumerate(columns_lower): if any(...): ...; break
FirstMatch(columns, keywords) ==
    IF Matching(columns, keywords) = {} THEN None
    ELSE columns[Minimum(Matching(columns, keywords))]

detect_columns(columns) ==
    LET title == FirstMatch(columns, title_keywords)
        expected == FirstMatch(columns, expected_keywords)
        actual == FirstMatch(columns, actual_keywords)
    IN  [title |-> IF title = None /\ Len(columns) > 0 THEN columns[1] ELSE title,
         expected |-> IF expected = None /\ Len(columns) > 1 THEN columns[2]
                      ELSE expected,
         actual |-> actual,
         description |-> None]

-----------------------------------------------------------------------------
(* Step (dataclass) and the row loop of MainWindow._process_excel_dataframe *)

Step(index, title, expected, actual) ==
    [index |-> index, title |-> title, expected |-> expected, actual |-> actual,
     notes |-> <<>>, screenshots |-> <<>>]

\* A value of the mapping dialog: None, or the text of a combo box entry.
Some(s) == [none |-> FALSE, text |-> s]

\* Python truth of an Optional[str]: neither None nor "".
Truthy(col) == col # None /\ col.text # ""

\* row[col] raises (KeyError: no such label; ValueError on the truth value
\* of pd.isna of the Series that a repeated label selects).
Raises(columns, col) == Cardinality(Lookup(columns, col.text)) # 1

\* str(row[col]) if not pd.isna(row[col]) else ""
CellText(columns, row, col) ==
    LET cell == row[CHOOSE j \in Lookup(columns, col.text) : TRUE]
    IN  IF cell.na THEN "" ELSE cell.text

\* Mutant of EmptyTitle: the comparison is case-sensitive and untrimmed.
EmptyTitleExact(title_val) == title_val \in {"nan", "none", ""}

\* not title_val.strip() or title_val.strip().lower() in ['nan', 'none', '']
EmptyTitle(title_val) ==
    Strip(title_val) = "" \/ Lower(Strip(title_val)) \in {"nan", "none", ""}

\* One pass of the loop body for a row: the row raises (the except branch),
\* is skipped (continue), or yields the fields of a Step.
RowOutcome(columns, row, mapping) ==
    IF \/ Raises(columns, mapping.title)
       \/ Truthy(mapping.expected) /\ Raises(columns, mapping.expected)
       \/ Truthy(mapping.actual) /\ Raises(columns, mapping.actual)
    THEN [kind |-> "failed"]
    ELSE LET title_val == CellText(columns, row, mapping.title)
             expected_val == IF Truthy(mapping.expected)
                             THEN CellText(columns, row, mapping.expected) ELSE ""
             actual_val == IF Truthy(mapping.actual)
                           THEN CellText(columns, row, mapping.actual) ELSE ""
         IN  IF mapping.skip_empty /\ EmptyTitle(title_val)
             THEN [kind |-> "dropped"]
             ELSE [kind |-> "kept", title |-> Strip(title_val),
                   expected |-> Strip(expected_val), actual |-> Strip(actual_val)]

\* Mutant of NextIndex: the step takes its original row number.
RowNumber(i, new_steps) == i

\* Mutant of NextIndex: the step is numbered after the session's list.
SessionIndex(i, new_steps) == Len(steps) + 1

\* index=len(new_steps) + 1
NextIndex(i, new_steps) == Len(new_steps) + 1

RECURSIVE ParseRows(_, _, _, _)
\* for idx, row in df.iterrows(): ...   acc = [steps |-> new_steps, outcomes]
ParseRows(frame, mapping, i, acc) ==
    IF i > Len(frame.rows) THEN acc
    ELSE LET o == RowOutcome(frame.columns, frame.rows[i], mapping)
         IN  ParseRows(frame, mapping, i + 1,
                 [steps |-> IF o.kind = "kept"
                            THEN Append(acc.steps,
                                     Step(NextIndex(i, acc.steps), o.title,
                                          o.expected, o.actual))
                            ELSE acc.steps,
                  outcomes |-> Append(acc.outcomes, o.kind)])

\* The resolution: what _process_excel_dataframe does with the dialog's
\* mapping, up to (not including) the assignment to self.steps.
Resolve(frame, mapping) ==
    IF ~Truthy(mapping.title)
    THEN [error |-> "Title column is required", steps |-> <<>>, outcomes |-> <<>>]
    ELSE LET r == ParseRows(frame, mapping, 1, [steps |-> <<>>, outcomes |-> <<>>])
         IN  [error |-> IF r.steps = <<>> THEN "No valid steps found in data"
                        ELSE "",
              steps |-> r.steps, outcomes |-> r.outcomes]

\* ColumnMappingDialog: the entries of each combo box ("<None>" and the
\* str of every column) and get_mapping over any selection of the user.
ComboEntries(frame) ==
    {"<None>"} \cup {frame.columns[j].text : j \in 1..Len(frame.columns)}

CurrentText(text) == IF text # "<None>" THEN Some(text) ELSE None

get_mapping(frame) ==
    {[title |-> CurrentText(t), expected |-> CurrentText(e),
      actual |-> CurrentText(a), skip_empty |-> k] :
        t \in ComboEntries(frame), e \in ComboEntries(frame),
        a \in ComboEntries(frame), k \in BOOLEAN}

-----------------------------------------------------------------------------
(* ClipboardParser.parse_excel_from_clipboard                              *)

RECURSIVE Split(_, _)
\* str.split(sep) for a one-character sep
Split(s, sep) ==
    LET at == {i \in 1..Len(s) : Char(s, i) = sep}
    IN  IF at = {} THEN <<s>>
        ELSE <<SubSeq(s, 1, Minimum(at) - 1)>>
                 \o Split(SubSeq(s, Minimum(at) + 1, Len(s)), sep)

RECURSIVE SelectNonEmpty(_)
SelectNonEmpty(lines) ==
    IF lines = <<>> THEN <<>>
    ELSE IF Head(lines) = "" THEN SelectNonEmpty(Tail(lines))
         ELSE <<Head(lines)>> \o SelectNonEmpty(Tail(lines))

Digit(n) == SubSeq("0123456789", n + 1, n + 1)

RECURSIVE IntToStr(_)
\* str(n) for n >= 0
IntToStr(n) == IF n < 10 THEN Digit(n) ELSE IntToStr(n \div 10) \o Digit(n % 10)

\* The strings pandas reads as a missing value.
na_values ==
    {"", "#N/A", "#N/A N/A", "#NA", "-1.#IND", "-1.#QNAN", "-NaN", "-nan",
     "1.#IND", "1.#QNAN", "<NA>", "N/A", "NA", "NULL", "NaN", "None", "n/a",
     "nan", "null"}

\* pd.read_csv(StringIO(text), sep=sep): the first non-blank line is the
\* header (an empty header field is named "Unnamed: <position>"), every
\* other non-blank line a row; a short row is filled with missing cells;
\* a row longer than the header raises (None).  Fields stay text, which is
\* what str(cell) gives for object columns and for integer columns without
\* missing cells; quoting is not modelled.
ReadCsv(text, sep) ==
    LET lines == SelectNonEmpty(Split(text, "\n"))
        header == Split(lines[1], sep)
        columns == [j \in 1..Len(header) |->
                       StrLabel(IF header[j] = "" THEN "Unnamed: " \o IntToStr(j - 1)
                                ELSE header[j])]
        fields == [i \in 1..(Len(lines) - 1) |-> Split(lines[i + 1], sep)]
        rows == [i \in 1..Len(fields) |->
                    [j \in 1..Len(header) |->
                        IF j > Len(fields[i]) \/ fields[i][j] \in na_values
                        THEN NaN ELSE Cell(fields[i][j])]]
    IN  IF \E i \in 1..Len(fields) : Len(fields[i]) > Len(header) THEN None
        ELSE DataFrame(columns, rows)

RECURSIVE StripLines(_)
\* [line.strip() for line in lines if line.strip()]
StripLines(lines) ==
    IF lines = <<>> THEN <<>>
    ELSE IF Strip(Head(lines)) = "" THEN StripLines(Tail(lines))
         ELSE <<Strip(Head(lines))>> \o StripLines(Tail(lines))

\* Mutant of chosen_format: the comma is looked for before the tab.
comma_first_format(clipboard_text) ==
    IF clipboard_text = "" \/ Strip(clipboard_text) = "" THEN "none"
    ELSE IF Contains(clipboard_text, ",") THEN "comma"
    ELSE IF Contains(clipboard_text, "\t") THEN "tab"
    ELSE "lines"

\* The branch that parse_excel_from_clipboard takes: the if / elif / else
\* chain over the text.
chosen_format(clipboard_text) ==
    IF clipboard_text = "" \/ Strip(clipboard_text) = "" THEN "none"
    ELSE IF Contains(clipboard_text, "\t") THEN "tab"
    ELSE IF Contains(clipboard_text, ",") THEN "comma"
    ELSE "lines"

\* Mutant of parse_excel_from_clipboard: a text without tab and comma is
\* no table.
parse_delimited_only(clipboard_text) ==
    LET format == chosen_format(clipboard_text)
    IN  IF format = "tab" THEN ReadCsv(clipboard_text, "\t")
        ELSE IF format = "comma" THEN ReadCsv(clipboard_text, ",")
        ELSE None

\* The result for the text that pyperclip.paste() returned.
parse_excel_from_clipboard(clipboard_text) ==
    LET format == chosen_format(clipboard_text)
    IN  IF format = "none" THEN None
        ELSE IF format = "tab" THEN ReadCsv(clipboard_text, "\t")
        ELSE IF format = "comma" THEN ReadCsv(clipboard_text, ",")
        ELSE LET lines == StripLines(Split(clipboard_text, "\n"))
             IN  IF Len(lines) > 0
                 THEN DataFrame(<<StrLabel("Step")>>,
                                [i \in 1..Len(lines) |-> <<Cell(lines[i])>>])
                 ELSE None

\* df.empty
Empty(frame) == Len(frame.columns) = 0 \/ Len(frame.rows) = 0

RECURSIVE Join(_, _)
\* sep.join(parts)
Join(parts, sep) ==
    IF parts = <<>> THEN ""
    ELSE IF Len(parts) = 1 THEN parts[1]
         ELSE parts[1] \o sep \o Join(Tail(parts), sep)

\* df.to_string(index=False): a header line, then one line per row; the
\* padding pandas adds to align the columns is left out.
to_string(frame) ==
    Join(<<Join([j \in 1..Len(frame.columns) |-> frame.columns[j].text], " ")>>
         \o [i \in 1..Len(frame.rows) |->
                Join([j \in 1..Len(frame.columns) |->
                         IF frame.rows[i][j].na THEN "NaN"
                         ELSE frame.rows[i][j].text], " ")],
         "\n")

-----------------------------------------------------------------------------
(* The session: MainWindow.                                                *)

\* The message box (show_error, show_info) of a step, if it opened one.
Said(msg) == [op |-> "", msg |-> msg]

NoCall == [op |-> "none"]

\* MainWindow.__init__: _init_default_steps, _update_step_view.
SessionInit ==
    /\ steps = <<Step(1, "", "", "")>>
    /\ current_step_idx = 0
    /\ session_active = FALSE
    /\ actual_edit = ""
    /\ pc = "idle"
    /\ df = None
    /\ hotkeys = <<>>
    /\ report = Said("")
    /\ ingest_pre = None

Init == SessionInit /\ call = NoCall

\* Mutant of save_current_step_actual: the pending edit is not written.
save_nothing(sts, idx, text) == sts

\* _save_current_step_actual
save_current_step_actual(sts, idx, text) ==
    IF 0 <= idx /\ idx < Len(sts) THEN [sts EXCEPT ![idx + 1].actual = text]
    ELSE sts

\* Mutant of new_step_index: off by one.
new_step_index_len(sts) == Len(sts)

\* Step(index=len(self.steps) + 1)
new_step_index(sts) == Len(sts) + 1

\* Mutant of prev_idx: no test for the first step.
prev_idx_unguarded(idx) == idx - 1

\* if self.current_step_idx > 0: self.current_step_idx -= 1
prev_idx(idx) == IF idx > 0 THEN idx - 1 ELSE idx

\* _update_step_view: the editor shows the current step's actual.
update_step_view(sts, idx, text) == IF sts = <<>> THEN text ELSE sts[idx + 1].actual

\* Mutant of on_next_step: no step is appended at the last step.
on_next_step_staying ==
    LET saved == save_current_step_actual(steps, current_step_idx, actual_edit)
    IN  /\ steps' = saved
        /\ current_step_idx' = IF current_step_idx < Len(saved) - 1
                               THEN current_step_idx + 1 ELSE current_step_idx
        /\ actual_edit' = update_step_view(steps', current_step_idx', actual_edit)

\* on_next_step, as called by the Next button and by on_next_hotkey.
on_next_step ==
    LET saved == save_current_step_actual(steps, current_step_idx, actual_edit)
    IN  /\ current_step_idx < Len(steps) - 1 \/ Len(steps) < MaxSteps
        /\ IF current_step_idx < Len(saved) - 1
           THEN /\ steps' = saved
                /\ current_step_idx' = current_step_idx + 1
           ELSE /\ steps' = Append(saved, Step(new_step_index(saved), "", "", ""))
                /\ current_step_idx' = Len(saved)
        /\ actual_edit' = update_step_view(steps', current_step_idx', actual_edit)

\* on_prev_step, as called by the Previous button and by on_prev_hotkey.
on_prev_step ==
    /\ steps' = save_current_step_actual(steps, current_step_idx, actual_edit)
    /\ current_step_idx' = prev_idx(current_step_idx)
    /\ actual_edit' = IF current_step_idx > 0
                      THEN update_step_view(steps', current_step_idx', actual_edit)
                      ELSE actual_edit

-----------------------------------------------------------------------------
(* Inputs of the session: what the user types, what the clipboard holds,   *)
(* what the spreadsheet reader returns.                                    *)

EditorTexts == {"", "ok"}

\* Texts on the clipboard at an ingestion: empty, blank, a tab-separated
\* table, a comma-separated header without rows.
ClipboardTexts ==
    {"", " \n", "Title\tExpected\nLogin\tUser is logged in\n", "a,b"}

\* The clipboard texts at a capture: empty, a header without rows, a line.
CaptureTexts == {"", "a,b", "seen"}

\* The clipboard at a capture: ImageGrab.grabclipboard() gives an Image, a
\* list of copied files, or None; the text is there beside it.
Clipboards ==
    {[img |-> i, text |-> t] : i \in {"image", "files", "none"}, t \in CaptureTexts}

\* pd.read_excel: a sheet with text headers, one with a numeric header
\* cell, and one with a header row only.
ExcelFrames ==
    {DataFrame(<<StrLabel("Test Step"), StrLabel("Expected Result")>>,
               <<<<Cell("Open page"), Cell("Page opens ")>>,
                 <<NaN, Cell("ignored")>>,
                 <<Cell(" Submit"), NaN>>>>),
     DataFrame(<<StrLabel("Name"), IntLabel("1")>>,
               <<<<Cell("nan"), Cell("x")>>>>),
     DataFrame(<<StrLabel("Name")>>, <<>>)}

\* What the file dialog and pd.read_excel give on_load_excel_file.
ExcelReads ==
    {[kind |-> "cancel"], [kind |-> "error"]}
        \cup {[kind |-> "frame", frame |-> f] : f \in ExcelFrames}

-----------------------------------------------------------------------------
(* Step methods.                                                           *)

\* Mutant of add_note: the text is appended without a test.
add_note_always(step, text) == [step EXCEPT !.notes = Append(@, Strip(text))]

\* Step.add_note
add_note(step, text) ==
    IF text # "" /\ Strip(text) # ""
    THEN [step EXCEPT !.notes = Append(@, Strip(text))] ELSE step

\* Mutant of add_screenshot: the path is appended without a test.
add_screenshot_always(step, path, exists) ==
    [step |-> [step EXCEPT !.screenshots = Append(@, path)], ok |-> TRUE]

\* Step.add_screenshot: the new step and the value returned; exists is
\* os.path.exists(path) at the time of the call.
add_screenshot(step, path, exists) ==
    IF exists
    THEN [step |-> [step EXCEPT !.screenshots = Append(@, path)], ok |-> TRUE]
    ELSE [step |-> step, ok |-> FALSE]

\* Mutant of is_empty: the texts are compared without strip().
is_empty_exact(step) ==
    ~ \/ step.title # ""
      \/ step.expected # ""
      \/ step.actual # ""
      \/ step.notes # <<>>
      \/ step.screenshots # <<>>

\* Step.is_empty
is_empty(step) ==
    ~ \/ Strip(step.title) # ""
      \/ Strip(step.expected) # ""
      \/ Strip(step.actual) # ""
      \/ step.notes # <<>>
      \/ step.screenshots # <<>>

-----------------------------------------------------------------------------
(* DocxExporter.  A document is the sequence of the calls made on it.      *)

\* doc.add_heading(text, level)
Heading(text, level) == [op |-> "heading", text |-> text, level |-> level]

\* doc.add_paragraph(text, style); style "" is the default style
Paragraph(text, style) == [op |-> "paragraph", text |-> text, style |-> style]

\* doc.add_table(rows=2, cols=2) with its header and content cells
Table(expected, actual) ==
    [op |-> "table", header |-> <<"Expected Result", "Actual Result">>,
     content |-> <<expected, actual>>]

\* doc.add_picture(path, width=Inches(5.5))
Picture(path) == [op |-> "picture", path |-> path]

\* doc.add_page_break()
PageBreak == [op |-> "page_break"]

\* doc.save(filepath)
Save == [op |-> "save"]

\* datetime.now().strftime(...) of the time of the export
Timestamp(time) == IntToStr(time)

\* The title heading, the two metadata paragraphs and the page break.
title_calls(sts, title, time) ==
    <<Heading(title, 0),
      Paragraph("Generated: " \o Timestamp(time), ""),
      Paragraph("Total Steps: " \o IntToStr(Len(sts)), ""),
      PageBreak>>

\* x or default
Or(x, default) == IF x # "" THEN x ELSE default

\* The table of expected and actual and the spacing paragraph.
result_calls(step) ==
    IF step.expected # "" \/ step.actual # ""
    THEN <<Table(Or(step.expected, "N/A"), Or(step.actual, "N/A")), Paragraph("", "")>>
    ELSE <<>>

\* Mutant of notes_calls: the notes from the last to the first.
notes_calls_reversed(notes) ==
    IF notes = <<>> THEN <<>>
    ELSE <<Heading("Notes:", 2)>>
             \o [k \in 1..Len(notes) |-> Paragraph(notes[Len(notes) + 1 - k], "List Bullet")]

\* The heading "Notes:" and one bullet per note.
notes_calls(notes) ==
    IF notes = <<>> THEN <<>>
    ELSE <<Heading("Notes:", 2)>>
             \o [k \in 1..Len(notes) |-> Paragraph(notes[k], "List Bullet")]

\* Mutant of screenshot_calls: no test for the file.
screenshot_calls_unchecked(idx, path, file) ==
    <<Paragraph("Screenshot " \o IntToStr(idx) \o ":", "Caption"),
      Picture(path), Paragraph("", "")>>

\* One turn of the loop over the screenshots: file is "missing" when
\* os.path.exists(path) is false, "broken" when add_picture raises, else
\* "ok".
screenshot_calls(idx, path, file) ==
    IF file = "missing"
    THEN <<Paragraph("[Screenshot " \o IntToStr(idx) \o " missing: " \o path \o "]", "")>>
    ELSE IF file = "broken"
    THEN <<Paragraph("Screenshot " \o IntToStr(idx) \o ":", "Caption"),
           Picture(path),
           Paragraph("[Error loading screenshot " \o IntToStr(idx) \o "]", "")>>
    ELSE <<Paragraph("Screenshot " \o IntToStr(idx) \o ":", "Caption"),
           Picture(path), Paragraph("", "")>>

\* for idx, screenshot_path in enumerate(step.screenshots, 1), from idx on
RECURSIVE screenshots_from(_, _, _)
screenshots_from(idx, screenshots, files) ==
    IF idx > Len(screenshots) THEN <<>>
    ELSE screenshot_calls(idx, screenshots[idx], files[screenshots[idx]])
             \o screenshots_from(idx + 1, screenshots, files)

\* The body of the loop over the steps.
step_calls(step, files) ==
    IF is_empty(step) THEN <<>>
    ELSE <<Heading("Step " \o IntToStr(step.index) \o ": " \o Or(step.title, "Untitled"), 1)>>
             \o result_calls(step)
             \o notes_calls(step.notes)
             \o (IF step.screenshots = <<>> THEN <<>>
                 ELSE <<Heading("Screenshots:", 2)>>
                          \o screenshots_from(1, step.screenshots, files))
             \o <<PageBreak>>

\* for step in steps
RECURSIVE steps_calls(_, _)
steps_calls(sts, files) ==
    IF sts = <<>> THEN <<>>
    ELSE step_calls(Head(sts), files) \o steps_calls(Tail(sts), files)

\* DocxExporter.export: the calls made on the document, the value
\* returned, and the steps as the call leaves them; save_ok tells whether
\* doc.save returns or raises.
export(sts, title, time, files, save_ok) ==
    [calls |-> title_calls(sts, title, time) \o steps_calls(sts, files) \o <<Save>>,
     ok |-> save_ok,
     steps |-> sts]

-----------------------------------------------------------------------------
(* Handlers.  A button handler starts only when the main thread is idle    *)
(* (a modal dialog blocks the window's input); a queued hotkey signal is   *)
(* delivered by whichever event loop the main thread runs, the nested loop *)
(* of a modal dialog included.                                             *)

Idle == pc = "idle"

CurrentStep == steps[current_step_idx + 1]

\* The user types in the editor.
EditText(text) ==
    /\ Idle
    /\ text # actual_edit
    /\ actual_edit' = text
    /\ report' = Said("")
    /\ UNCHANGED <<steps, current_step_idx, session_active, pc, df, hotkeys,
                   ingest_pre, call>>

\* _on_editor_focus_out
on_editor_focus_out ==
    /\ Idle
    /\ steps' = save_current_step_actual(steps, current_step_idx, actual_edit)
    /\ report' = Said("")
    /\ UNCHANGED <<current_step_idx, session_active, actual_edit, pc, df,
                   hotkeys, ingest_pre, call>>

on_start_session ==
    /\ Idle
    /\ ~session_active
    /\ session_active' = TRUE
    /\ report' = Said("")
    /\ UNCHANGED <<steps, current_step_idx, actual_edit, pc, df, hotkeys,
                   ingest_pre, call>>

\* The Next button.
ClickNext ==
    /\ Idle
    /\ on_next_step
    /\ report' = Said("")
    /\ UNCHANGED <<session_active, pc, df, hotkeys, ingest_pre, call>>

\* The Previous button.
ClickPrev ==
    /\ Idle
    /\ on_prev_step
    /\ report' = Said("")
    /\ UNCHANGED <<session_active, pc, df, hotkeys, ingest_pre, call>>

\* HotkeyManager._on_capture / _on_next / _on_prev on the listener thread:
\* the emitted signal is queued for the main thread.
\* Mutant of Enqueue: the callback emits its signal twice.
EnqueueTwice(key, limit) ==
    /\ Len(hotkeys) < limit
    /\ hotkeys' = hotkeys \o <<key, key>>
    /\ report' = Said("")
    /\ UNCHANGED <<steps, current_step_idx, session_active, actual_edit, pc, df,
                   ingest_pre, call>>

\* The callback of a hotkey emits its signal once; the queued connection
\* posts it behind the signals that wait (at most limit of them here).
Enqueue(key, limit) ==
    /\ Len(hotkeys) < limit
    /\ hotkeys' = Append(hotkeys, key)
    /\ report' = Said("")
    /\ UNCHANGED <<steps, current_step_idx, session_active, actual_edit, pc, df,
                   ingest_pre, call>>

KeyPress(key) == Enqueue(key, MaxQueue)

\* on_next_hotkey
DispatchNext ==
    /\ hotkeys # <<>> /\ Head(hotkeys) = "next"
    /\ hotkeys' = Tail(hotkeys)
    /\ IF session_active
       THEN on_next_step
       ELSE UNCHANGED <<steps, current_step_idx, actual_edit>>
    /\ report' = Said("")
    /\ UNCHANGED <<session_active, pc, df, ingest_pre, call>>

\* on_prev_hotkey
DispatchPrev ==
    /\ hotkeys # <<>> /\ Head(hotkeys) = "prev"
    /\ hotkeys' = Tail(hotkeys)
    /\ IF session_active
       THEN on_prev_step
       ELSE UNCHANGED <<steps, current_step_idx, actual_edit>>
    /\ report' = Said("")
    /\ UNCHANGED <<session_active, pc, df, ingest_pre, call>>

\* The file name capture_clipboard_into_step gives a screenshot: the step's
\* index and the time of the capture.
ScreenshotPath(step, time) == [step |-> step.index, time |-> time]

\* existing + separator + text, or text alone when existing is empty
Appended(existing, separator, text) ==
    IF existing # "" THEN existing \o separator \o text ELSE text

\* Mutant of TableCaptured: the table is never taken.
TableNever(frame) == FALSE

\* if df is not None and not df.empty
TableCaptured(frame) == frame # None /\ ~Empty(frame)

\* capture_clipboard_into_step for the clipboard content c at the given
\* time; save_ok tells whether img.save succeeds and exists whether the
\* file is there when add_screenshot looks for it.
capture_clipboard_into_step(c, time, save_ok, exists) ==
    LET step == CurrentStep
        frame == parse_excel_from_clipboard(c.text)
        Put(new_step) ==
            /\ steps' = [steps EXCEPT ![current_step_idx + 1] = new_step]
            /\ actual_edit' = update_step_view(steps', current_step_idx, actual_edit)
        Keep == UNCHANGED <<steps, actual_edit>>
    IN  IF c.img = "files"
        THEN Keep /\ report' = Said("")
        ELSE IF c.img = "image"
        THEN IF save_ok
             THEN LET added == add_screenshot(step, ScreenshotPath(step, time), exists)
                  IN  IF added.ok
                      THEN Put(added.step) /\ report' = Said("")
                      ELSE Keep /\ report' = Said("")
             ELSE Keep /\ report' = Said("Screenshot save failed")
        ELSE IF TableCaptured(frame)
        THEN LET table_text == to_string(frame)
                 noted == add_note(step, "[Table Data]\n" \o table_text)
             IN  /\ Put([noted EXCEPT !.actual =
                            Appended(step.actual, "\n\n", "[Pasted Table]\n" \o table_text)])
                 /\ report' = Said("")
        ELSE IF c.text # "" /\ Strip(c.text) # ""
        THEN /\ Put([add_note(step, c.text) EXCEPT !.actual =
                        Appended(step.actual, "\n", c.text)])
             /\ report' = Said("")
        ELSE Keep /\ report' = Said("")

RECURSIVE Artifacts(_)
\* The notes and screenshots held by a list of steps.
Artifacts(sts) ==
    IF sts = <<>> THEN 0
    ELSE Len(Head(sts).notes) + Len(Head(sts).screenshots) + Artifacts(Tail(sts))

\* on_capture_hotkey
DispatchCapture(c, time, save_ok, exists) ==
    /\ hotkeys # <<>> /\ Head(hotkeys) = "capture"
    /\ Artifacts(steps) < MaxCaptures
    /\ hotkeys' = Tail(hotkeys)
    /\ IF session_active
       THEN capture_clipboard_into_step(c, time, save_ok, exists)
       ELSE /\ report' = Said("")
            /\ UNCHANGED <<steps, actual_edit>>
    /\ UNCHANGED <<current_step_idx, session_active, pc, df, ingest_pre, call>>

\* The start of _process_excel_dataframe: detect_columns, then the mapping
\* dialog opens (dialog.exec_()).
OpenMappingDialog(frame) ==
    /\ pc' = "mapping"
    /\ df' = frame
    /\ ingest_pre' = <<steps, current_step_idx>>
    /\ UNCHANGED <<steps, current_step_idx, actual_edit>>

\* Mutant of session_on_error: the handler starts from a blank session.
reset_session(sts) == <<Step(1, "", "", "")>>

\* self.show_error(...); return -- self.steps is not assigned
session_on_error(sts) == sts

\* An ingestion handler returns before the mapping dialog.
Returned ==
    /\ steps' = session_on_error(steps)
    /\ UNCHANGED <<current_step_idx, actual_edit, pc, df, ingest_pre>>

\* on_paste_excel_from_clipboard, up to the mapping dialog.
on_paste_excel_from_clipboard(clipboard_text) ==
    LET frame == parse_excel_from_clipboard(clipboard_text)
        Tell(msg) == report' = Said(msg)
    IN  /\ Idle
        /\ IF frame = None
           THEN Returned /\ Tell("Could not parse clipboard as Excel data")
           ELSE IF Empty(frame)
           THEN Returned /\ Tell("Clipboard contains empty data")
           ELSE OpenMappingDialog(frame) /\ Tell("")
        /\ UNCHANGED <<session_active, hotkeys, call>>

\* on_load_excel_file, up to the mapping dialog.  Nothing of the session is
\* read or written before the mapping dialog opens, so the file dialog's
\* own event loop is not a separate step.
on_load_excel_file(read) ==
    /\ Idle
    /\ IF read.kind = "cancel" THEN Returned /\ report' = Said("")
       ELSE IF read.kind = "error"
       THEN Returned /\ report' = Said("Failed to read Excel file")
       ELSE IF Empty(read.frame)
       THEN Returned /\ report' = Said("Excel file is empty")
       ELSE OpenMappingDialog(read.frame) /\ report' = Said("")
    /\ UNCHANGED <<session_active, hotkeys, call>>

\* Mutant of replace_steps: the new steps are added to the old list.
extend_steps(old_steps, new_steps) == old_steps \o new_steps

\* self.steps = new_steps
replace_steps(old_steps, new_steps) == new_steps

\* self.current_step_idx = 0
first_step(idx) == 0

\* str(auto_mapping[role]) as the dialog preselects it, "<None>" otherwise.
Preselected(label) ==
    IF label # None /\ label.text # "" /\ (label.isstr \/ label.text # "0")
    THEN label.text ELSE "<None>"

\* What the open mapping dialog returns in the session: the preselected
\* entries of detect_columns, the title possibly set to "<None>" and the
\* skip box possibly cleared by the user.
DialogMappings ==
    IF pc # "mapping" THEN {}
    ELSE LET auto == detect_columns(df.columns)
         IN  {m \in get_mapping(df) :
                 /\ m.title \in {None, CurrentText(Preselected(auto.title))}
                 /\ m.expected = CurrentText(Preselected(auto.expected))
                 /\ m.actual = CurrentText(Preselected(auto.actual))}

\* The rest of _process_excel_dataframe once the dialog is accepted with
\* the mapping that get_mapping returns.
MappingAccepted(mapping) ==
    LET r == Resolve(df, mapping)
    IN  /\ pc = "mapping"
        /\ IF r.error # ""
           THEN /\ steps' = session_on_error(steps)
                /\ UNCHANGED <<current_step_idx, actual_edit>>
                /\ report' = [op |-> "resolve", msg |-> r.error,
                              before |-> ingest_pre]
           ELSE /\ steps' = replace_steps(steps, r.steps)
                /\ current_step_idx' = first_step(current_step_idx)
                /\ actual_edit' = update_step_view(steps', current_step_idx', actual_edit)
                /\ report' = [op |-> "resolve", msg |-> "Steps Loaded",
                              frame |-> df, mapping |-> mapping,
                              replaced |-> [artifacts |-> Artifacts(steps),
                                            cursor |-> current_step_idx]]
        /\ pc' = "idle"
        /\ df' = None
        /\ ingest_pre' = None
        /\ UNCHANGED <<session_active, hotkeys, call>>

\* if dialog.exec_() != QDialog.Accepted: return
MappingRejected ==
    /\ pc = "mapping"
    /\ pc' = "idle"
    /\ df' = None
    /\ ingest_pre' = None
    /\ report' = Said("")
    /\ UNCHANGED <<steps, current_step_idx, session_active, actual_edit, hotkeys,
                   call>>

\* on_export_docx up to its first dialog: the pending edit is saved, then
\* the "Empty Steps" question or the save-file dialog opens.
on_export_docx ==
    /\ Idle
    /\ steps' = save_current_step_actual(steps, current_step_idx, actual_edit)
    /\ pc' = IF \A i \in 1..Len(steps') : is_empty(steps'[i])
             THEN "export_confirm" ELSE "export_path"
    /\ report' = Said("")
    /\ UNCHANGED <<current_step_idx, session_active, actual_edit, df, hotkeys,
                   ingest_pre, call>>

\* The answer to "All steps appear to be empty. Export anyway?"
ExportConfirmed(yes) ==
    /\ pc = "export_confirm"
    /\ pc' = IF yes THEN "export_path" ELSE "idle"
    /\ report' = Said("")
    /\ UNCHANGED <<steps, current_step_idx, session_active, actual_edit, df,
                   hotkeys, ingest_pre, call>>

\* QFileDialog.getSaveFileName returned: no path ("cancel"), or a path, and
\* then DocxExporter.export ran and doc.save succeeded ("saved") or not
\* ("failed").  The signals that QApplication.processEvents() would deliver
\* are those the dialog's loop delivers just before it closes.
ExportFinished(outcome) ==
    /\ pc = "export_path"
    /\ pc' = "idle"
    /\ report' = Said(CASE outcome = "cancel" -> ""
                        [] outcome = "saved" -> "Export Successful"
                        [] outcome = "failed" -> "Failed to export document")
    /\ UNCHANGED <<steps, current_step_idx, session_active, actual_edit, df,
                   hotkeys, ingest_pre, call>>

Next ==
    \/ \E text \in EditorTexts : EditText(text)
    \/ on_editor_focus_out
    \/ on_start_session
    \/ ClickNext
    \/ ClickPrev
    \/ \E key \in {"capture", "next", "prev"} : KeyPress(key)
    \/ DispatchNext
    \/ DispatchPrev
    \/ \E c \in Clipboards, time \in 1..MaxTime, save_ok \in BOOLEAN, exists \in BOOLEAN :
           DispatchCapture(c, time, save_ok, exists)
    \/ \E text \in ClipboardTexts : on_paste_excel_from_clipboard(text)
    \/ \E read \in ExcelReads : on_load_excel_file(read)
    \/ \E mapping \in DialogMappings : MappingAccepted(mapping)
    \/ MappingRejected
    \/ on_export_docx
    \/ \E yes \in BOOLEAN : ExportConfirmed(yes)
    \/ \E outcome \in {"cancel", "saved", "failed"} : ExportFinished(outcome)

Spec == Init /\ [][Next]_vars


-----------------------------------------------------------------------------
(* detect_columns applied to the column labels of a table.                 *)

\* Column labels: headers that match one role, two roles or none, with
\* upper case and surrounding blanks, and a numeric header cell.
Labels ==
    {StrLabel("Test Step"), StrLabel("Expected Result"), StrLabel("Actual Result"),
     StrLabel(" OUTCOME "), StrLabel("Status"), StrLabel("Expected Status"),
     StrLabel("Data"), IntLabel("1")}

\* df.columns: up to MaxCols distinct labels in any order.
ColumnLists ==
    {c \in UNION {[1..n -> Labels] : n \in 0..MaxCols} :
        \A i, j \in DOMAIN c : c[i] = c[j] => i = j}

InitDetect ==
    /\ SessionInit
    /\ call \in {[op |-> "detect", columns |-> c, done |-> FALSE, result |-> None] :
                    c \in ColumnLists}

DetectCall ==
    /\ call.op = "detect"
    /\ ~call.done
    /\ call' = [call EXCEPT !.done = TRUE, !.result = detect_columns(call.columns)]
    /\ UNCHANGED session_vars

SpecDetect == InitDetect /\ [][DetectCall]_vars

-----------------------------------------------------------------------------
(* The row resolution applied to a table and a mapping of the dialog.      *)

ResolveColumns ==
    {<<StrLabel("Title"), StrLabel("Expected")>>,
     <<StrLabel("Title"), IntLabel("1")>>}

\* Rows: a title, a missing title, titles that read as empty.
ResolveRows ==
    {<<Cell("Login"), Cell(" ok ")>>, <<NaN, Cell("x")>>,
     <<Cell(" NaN "), NaN>>, <<Cell("None"), Cell("y")>>}

\* The tables that reach the resolution: at least one row (df.empty is
\* refused before), at most MaxRows.
ResolveFrames ==
    {DataFrame(c, r) : c \in ResolveColumns,
                       r \in UNION {[1..n -> ResolveRows] : n \in 1..MaxRows}}

InitResolve ==
    /\ SessionInit
    /\ call \in UNION {{[op |-> "resolve", frame |-> f, mapping |-> m,
                           done |-> FALSE, result |-> None] : m \in get_mapping(f)} :
                          f \in ResolveFrames}

ResolveCall ==
    /\ call.op = "resolve"
    /\ ~call.done
    /\ call' = [call EXCEPT !.done = TRUE,
                            !.result = Resolve(call.frame, call.mapping)]
    /\ UNCHANGED session_vars

SpecResolve == InitResolve /\ [][ResolveCall]_vars

-----------------------------------------------------------------------------
(* Properties of the session.                                              *)

\* C1: in every reachable state the cursor is a valid position of the step
\* list, 0 <= current_step_idx < len(steps); the list is never empty.
C1_CursorInRange ==
    /\ Len(steps) > 0
    /\ 0 <= current_step_idx
    /\ current_step_idx < Len(steps)

\* A two-step list with the cursor on its second step was replaced by an
\* ingested list of one step.
C1_CursorResetBySmallerList ==
    /\ report.op = "resolve" /\ report.msg = "Steps Loaded"
    /\ report.replaced.cursor > 0
    /\ Len(steps) = 1

\* C2: the step at list position i (0-based) has index i + 1, however it was
\* created, in every reachable state.
C2_DenseIndices == \A i \in 1..Len(steps) : steps[i].index = i

\* An ingestion dropped the middle row, and the third row is step 2.
C2_RenumberedAfterDrop ==
    /\ Len(steps) = 2
    /\ steps[2].title = "Submit"

\* A step of on_next_step or on_prev_step (button or hotkey of a running
\* session).
Navigation ==
    \/ ClickNext
    \/ ClickPrev
    \/ session_active /\ (DispatchNext \/ DispatchPrev)

\* C3: every navigation writes the editor's text into the actual field of the
\* step that is current before the move and changes no other step's actual.
C3_NavigationFlushesEdit ==
    [][Navigation =>
          /\ steps'[current_step_idx + 1].actual = actual_edit
          /\ \A j \in 1..Len(steps) :
                 j # current_step_idx + 1 => steps'[j].actual = steps[j].actual]_vars

\* The text typed on step 1 is in its actual field after the move to step 2.
C3_EditKeptAcrossNext ==
    /\ Len(steps) = 2
    /\ current_step_idx = 1
    /\ steps[1].actual = "ok"
    /\ steps[2].actual = ""
    /\ actual_edit = ""

\* C4: when the resolution fails (title unset, or no row kept) the step list
\* and the cursor are what they were when the ingestion began.
C4_FailedResolutionKeepsSession ==
    (report.op = "resolve" /\ report.msg \in {"Title column is required",
                                              "No valid steps found in data"})
        => <<steps, current_step_idx>> = report.before

\* A clipboard ingestion of a text without a table: empty or blank, or one
\* the parser gives up on.
NoTablePaste ==
    \E text \in ClipboardTexts :
        /\ text = "" \/ Strip(text) = "" \/ parse_excel_from_clipboard(text) = None
        /\ on_paste_excel_from_clipboard(text)

\* C5: a clipboard ingestion that finds no table reports the failure and
\* leaves the step list and the cursor unchanged.
C5_NoTableKeepsSession ==
    [][NoTablePaste =>
          /\ report'.msg = "Could not parse clipboard as Excel data"
          /\ steps' = steps
          /\ current_step_idx' = current_step_idx
          /\ pc' = "idle"]_vars

\* The failure was reported on a session of two steps, one of them edited.
C5_FailureOnEditedSession ==
    /\ report.msg = "Could not parse clipboard as Excel data"
    /\ Len(steps) = 2
    /\ current_step_idx = 1
    /\ steps[1].actual = "ok"

\* C6: after a successful resolution the step list is the list of the newly
\* resolved steps, nothing of the previous list survives, and the cursor is 0.
C6_ResolvedListReplacesSession ==
    (report.op = "resolve" /\ report.msg = "Steps Loaded") =>
        /\ current_step_idx = 0
        /\ steps = Resolve(report.frame, report.mapping).steps
        /\ Len(steps) <= Len(report.frame.rows)
        /\ \A i \in 1..Len(steps) :
               steps[i].notes = <<>> /\ steps[i].screenshots = <<>>

\* The replaced list held a note or a screenshot and the cursor was past
\* its first step.
C6_ReplacedListHadEvidence ==
    /\ report.op = "resolve" /\ report.msg = "Steps Loaded"
    /\ report.replaced.artifacts > 0
    /\ report.replaced.cursor > 0

-----------------------------------------------------------------------------
(* Properties of the row resolution.                                       *)

Resolved == call.op = "resolve" /\ call.done

\* The rows that yielded a step.
KeptRows == {i \in 1..Len(call.result.outcomes) : call.result.outcomes[i] = "kept"}

\* The k-th kept row.
KthKept(k) == CHOOSE i \in KeptRows : Cardinality({j \in KeptRows : j <= i}) = k

\* C7: the resolved steps have the indices 1..N in order, N the number of rows
\* kept, and the k-th step comes from the k-th kept row.
C7_RenumberedInRowOrder ==
    Resolved =>
        /\ Len(call.result.steps) = Cardinality(KeptRows)
        /\ \A k \in 1..Len(call.result.steps) :
               /\ call.result.steps[k].index = k
               /\ call.result.steps[k].title =
                      Strip(CellText(call.frame.columns, call.frame.rows[KthKept(k)],
                                     call.mapping.title))

\* A row was dropped before a row that was kept.
C7_KeptAfterDropped ==
    /\ Resolved
    /\ \E i, j \in 1..Len(call.result.outcomes) :
           /\ i < j
           /\ call.result.outcomes[i] = "dropped"
           /\ call.result.outcomes[j] = "kept"

\* The title of row i as the resolution reads it: "" for a missing cell.
ResolvedTitle(i) ==
    LET cell == call.frame.rows[i][CHOOSE j \in 1..Len(call.frame.columns) :
                                       /\ call.frame.columns[j].isstr
                                       /\ call.frame.columns[j].text =
                                              call.mapping.title.text]
    IN  IF cell.na THEN "" ELSE cell.text

\* C8: a row that does not fail is dropped iff the skip flag is set and its
\* title, trimmed and lower-cased, is "", "nan" or "none"; such a row never
\* yields a step, and without the flag every row that does not fail is kept.
C8_DroppedIffEmptyTitle ==
    Resolved =>
        \A i \in 1..Len(call.result.outcomes) :
            LET o == call.result.outcomes[i]
            IN  /\ o = "dropped" <=>
                       /\ o # "failed"
                       /\ call.mapping.skip_empty
                       /\ Lower(Strip(ResolvedTitle(i))) \in {"", "nan", "none"}
                /\ (~call.mapping.skip_empty /\ o # "failed") => o = "kept"

\* With the flag set a row titled " NaN " was dropped next to a kept row.
C8_BlankTitleDropped ==
    /\ Resolved
    /\ call.mapping.skip_empty
    /\ \E i, j \in 1..Len(call.result.outcomes) :
           /\ call.result.outcomes[i] = "dropped"
           /\ call.frame.rows[i][1] = Cell(" NaN ")
           /\ call.result.outcomes[j] = "kept"

-----------------------------------------------------------------------------
(* Properties of detect_columns.                                           *)

Detected == call.op = "detect" /\ call.done

\* C9: a table with a column named "Expected Result" has the expected role
\* mapped to that column.
C9_ExpectedResultIsExpected ==
    (Detected /\ \E j \in 1..Len(call.columns) :
                     call.columns[j] = StrLabel("Expected Result"))
        => call.result.expected = StrLabel("Expected Result")

RoleKeywords(role) ==
    CASE role = "title" -> {"step", "title", "test", "case", "action",
                            "description", "name", "summary"}
      [] role = "expected" -> {"expected", "result", "outcome", "should"}
      [] role = "actual" -> {"actual", "status", "pass", "fail"}

\* Column j's name, lower-cased and trimmed, contains a keyword of the role.
Hit(role, j) ==
    \E keyword \in RoleKeywords(role) :
        Contains(Strip(Lower(call.columns[j].text)), keyword)

\* The positional fallback of a role.
Fallback(role) ==
    CASE role = "title" -> IF Len(call.columns) >= 1 THEN call.columns[1] ELSE None
      [] role = "expected" -> IF Len(call.columns) >= 2 THEN call.columns[2] ELSE None
      [] role = "actual" -> None

\* C10: each role takes the leftmost column whose name contains one of its
\* keywords, whatever the other roles took; without a match title takes the
\* first column, expected the second, and actual stays unset.
C10_LeftmostMatchOrFallback ==
    Detected =>
        \A role \in {"title", "expected", "actual"} :
            IF \E j \in 1..Len(call.columns) : Hit(role, j)
            THEN \E j \in 1..Len(call.columns) :
                     /\ Hit(role, j)
                     /\ \A i \in 1..(j - 1) : ~Hit(role, i)
                     /\ call.result[role] = call.columns[j]
            ELSE call.result[role] = Fallback(role)

\* No title keyword matches, so title is the first column, and the second
\* column was chosen for both expected and actual.
C10_FallbackAndSharedColumn ==
    /\ Detected
    /\ Len(call.columns) >= 2
    /\ \A j \in 1..Len(call.columns) : ~Hit("title", j)
    /\ call.result.title = call.columns[1]
    /\ call.result.expected = call.columns[2]
    /\ call.result.actual = call.columns[2]


-----------------------------------------------------------------------------
(* parse_excel_from_clipboard applied to a clipboard text.                 *)

\* The characters of a clipboard text: a letter, the two delimiters, the
\* line break and a blank.
Alphabet == {"a", "\t", ",", "\n", " "}

RECURSIVE TextsUpTo(_)
\* Every text of at most n characters.
TextsUpTo(n) ==
    IF n = 0 THEN {""}
    ELSE TextsUpTo(n - 1) \cup {t \o c : t \in TextsUpTo(n - 1), c \in Alphabet}

InitParse ==
    /\ SessionInit
    /\ call \in {[op |-> "parse", text |-> t, done |-> FALSE, format |-> "",
                  result |-> None] : t \in TextsUpTo(MaxText)}

ParseCall ==
    /\ call.op = "parse"
    /\ ~call.done
    /\ call' = [call EXCEPT !.done = TRUE,
                            !.format = chosen_format(call.text),
                            !.result = parse_excel_from_clipboard(call.text)]
    /\ UNCHANGED session_vars

SpecParse == InitParse /\ [][ParseCall]_vars

Parsed == call.op = "parse" /\ call.done

\* The single-column table of the non-empty trimmed lines of a text.
StepTable(text) ==
    LET lines == StripLines(Split(text, "\n"))
    IN  DataFrame(<<StrLabel("Step")>>, [i \in 1..Len(lines) |-> <<Cell(lines[i])>>])

\* C11 as stated: every non-empty text with a tab is parsed as tab-delimited.
C11_NonEmptyTabTextIsTabDelimited ==
    (Parsed /\ call.text # "" /\ Contains(call.text, "\t")) =>
        /\ call.format = "tab"
        /\ call.result = ReadCsv(call.text, "\t")

\* C11 (amended): a text that is not empty or whitespace-only is parsed as
\* tab-delimited when it contains a tab, commas or not; otherwise as
\* comma-delimited when it contains a comma; otherwise it becomes the
\* one-column table "Step" of its non-empty trimmed lines.  One rule only is
\* applied.
C11_FormatPriority ==
    (Parsed /\ Strip(call.text) # "") =>
        IF Contains(call.text, "\t")
        THEN call.format = "tab" /\ call.result = ReadCsv(call.text, "\t")
        ELSE IF Contains(call.text, ",")
        THEN call.format = "comma" /\ call.result = ReadCsv(call.text, ",")
        ELSE call.format = "lines" /\ call.result = StepTable(call.text)

\* A text with a comma before a tab was parsed as tab-delimited.
C11_TabBeatsComma ==
    /\ Parsed
    /\ call.text = "a,a\t"
    /\ call.format = "tab"
    /\ call.result.columns = <<StrLabel("a,a"), StrLabel("Unnamed: 1")>>


-----------------------------------------------------------------------------
(* The row resolution applied twice to one table and mapping, the session  *)
(* moving in between.                                                      *)

TwiceFrames == {f \in ResolveFrames : Len(f.rows) <= 2}

InitTwice ==
    /\ SessionInit
    /\ call \in UNION {{[op |-> "twice", frame |-> f, mapping |-> m, runs |-> <<>>] :
                           m \in get_mapping(f)} : f \in TwiceFrames}

\* One resolution; the run records the session it was made in.
ResolveAgain ==
    /\ call.op = "twice"
    /\ Len(call.runs) < 2
    /\ call' = [call EXCEPT !.runs =
                   Append(@, [session |-> <<Len(steps), current_step_idx>>,
                              result |-> Resolve(call.frame, call.mapping)])]
    /\ UNCHANGED session_vars

NextTwice ==
    \/ ResolveAgain
    \/ ClickNext
    \/ ClickPrev

SpecResolveTwice == InitTwice /\ [][NextTwice]_vars

-----------------------------------------------------------------------------
(* Operations in progress and the hotkeys.                                 *)

\* An ingestion (the mapping dialog is open) or an export (one of its
\* dialogs is open) is in progress.
InProgress == pc \in {"mapping", "export_confirm", "export_path"}

\* C13: while an ingestion or an export is in progress no hotkey signal is
\* handled, and nothing changes the step list or the cursor but the end of
\* that operation.
C13_NoOperationDuringAnother ==
    [][InProgress =>
          /\ Len(hotkeys') >= Len(hotkeys)
          /\ \/ <<steps, current_step_idx>>' = <<steps, current_step_idx>>
             \/ pc' = "idle"]_vars

-----------------------------------------------------------------------------
(* The hotkeys alone: presses on the listener thread and their delivery to *)
(* the slots of the main window, before and after the session starts.      *)

Keys == {"capture", "next", "prev"}

PressKey(key) == Enqueue(key, MaxPresses)

NextHotkeys ==
    \/ on_start_session
    \/ \E key \in Keys : PressKey(key)
    \/ DispatchNext
    \/ DispatchPrev
    \/ \E c \in Clipboards, time \in 1..MaxTime, save_ok \in BOOLEAN, exists \in BOOLEAN :
           DispatchCapture(c, time, save_ok, exists)

SpecHotkeys == Init /\ [][NextHotkeys]_vars

\* The session action of a key.
Executed(key) ==
    CASE key = "next" -> on_next_step
      [] key = "prev" -> on_prev_step
      [] key = "capture" ->
             \E c \in Clipboards, time \in 1..MaxTime, save_ok \in BOOLEAN,
                exists \in BOOLEAN :
                 capture_clipboard_into_step(c, time, save_ok, exists)

SessionUntouched ==
    /\ steps' = steps
    /\ current_step_idx' = current_step_idx
    /\ actual_edit' = actual_edit

\* C14: a press adds one signal behind those that wait and executes nothing
\* by itself; the signals are handled one at a time, oldest first, each by
\* one execution of its key's action when the session is active and by none,
\* the step list and cursor unchanged, when it is not; nothing else executes
\* an action.
C14_OnePressOneAction ==
    [][/\ Len(hotkeys') > Len(hotkeys) =>
              /\ \E key \in Keys : hotkeys' = Append(hotkeys, key)
              /\ SessionUntouched
       /\ Len(hotkeys') < Len(hotkeys) =>
              /\ hotkeys' = Tail(hotkeys)
              /\ IF session_active THEN Executed(Head(hotkeys)) ELSE SessionUntouched
       /\ Len(hotkeys') = Len(hotkeys) =>
              /\ hotkeys' = hotkeys
              /\ SessionUntouched]_vars

\* The next key was handled, a second step was appended and the cursor is
\* on it, while a press of the previous key waits behind it.
C14_NextHandledPrevWaiting ==
    /\ session_active
    /\ hotkeys = <<"prev">>
    /\ Len(steps) = 2
    /\ current_step_idx = 1


-----------------------------------------------------------------------------
(* Captures alone: the user types, the editor loses focus, moves on, and   *)
(* the capture key is pressed and handled.                                 *)

NextCapture ==
    \/ on_start_session
    \/ \E text \in EditorTexts : EditText(text)
    \/ on_editor_focus_out
    \/ ClickNext
    \/ PressKey("capture")
    \/ \E c \in Clipboards, time \in 1..MaxTime, save_ok \in BOOLEAN, exists \in BOOLEAN :
           DispatchCapture(c, time, save_ok, exists)

SpecCapture == Init /\ [][NextCapture]_vars

\* The current step after the step of the model.
CapturedStep == steps'[current_step_idx + 1]

\* What a capture of the clipboard c may leave in the current step: with an
\* image on the clipboard at most one screenshot and nothing else; else
\* with a table with rows one "[Table Data]" note and the "[Pasted Table]"
\* block; else with a text that is not blank one note of that text and the
\* text itself appended; else nothing.
CaptureOutcome(c) ==
    LET before == CurrentStep
        frame == parse_excel_from_clipboard(c.text)
        table == frame # None /\ Len(frame.columns) > 0 /\ Len(frame.rows) > 0
    IN  IF c.img # "none"
        THEN /\ CapturedStep.notes = before.notes
             /\ CapturedStep.actual = before.actual
             /\ \/ CapturedStep.screenshots = before.screenshots
                \/ /\ c.img = "image"
                   /\ Len(CapturedStep.screenshots) = Len(before.screenshots) + 1
        ELSE /\ CapturedStep.screenshots = before.screenshots
             /\ IF table
                THEN /\ CapturedStep.notes =
                            Append(before.notes, "[Table Data]\n" \o to_string(frame))
                     /\ CapturedStep.actual =
                            (IF before.actual = "" THEN "" ELSE before.actual \o "\n\n")
                                \o "[Pasted Table]\n" \o to_string(frame)
                ELSE IF Strip(c.text) # ""
                THEN /\ CapturedStep.notes = Append(before.notes, Strip(c.text))
                     /\ CapturedStep.actual =
                            (IF before.actual = "" THEN "" ELSE before.actual \o "\n")
                                \o c.text
                ELSE /\ CapturedStep.notes = before.notes
                     /\ CapturedStep.actual = before.actual

\* C15: a capture takes the first of image, table, plain text that is there:
\* with an image nothing of a table or text is recorded, with a table no
\* plain-text note, and the text only without image and table.
C15_FirstInterpretationWins ==
    [][\A c \in Clipboards, time \in 1..MaxTime, save_ok \in BOOLEAN, exists \in BOOLEAN :
           (session_active /\ DispatchCapture(c, time, save_ok, exists))
               => CaptureOutcome(c)]_vars

\* The line "seen" was captured as a table on a step whose actual was "ok".
C15_TableCapturedNotText ==
    /\ session_active
    /\ CurrentStep.notes = <<"[Table Data]\nStep\nseen">>
    /\ CurrentStep.actual = "ok\n\n[Pasted Table]\nStep\nseen"
    /\ CurrentStep.screenshots = <<>>


-----------------------------------------------------------------------------
(* DocxExporter.export on the step lists a session can hold.               *)

\* The first n notes a step has collected.
NotesUpTo(n) == [k \in 1..n |-> "note" \o IntToStr(k)]

\* The first n screenshot paths a step has collected.
ShotsUpTo(n) == [k \in 1..n |-> "shot" \o IntToStr(k) \o ".png"]

\* The steps with the given index: title and expected as the resolution
\* leaves them (trimmed), actual as the editor gives it.
ExportSteps(index) ==
    {[index |-> index, title |-> t, expected |-> e, actual |-> a,
      notes |-> NotesUpTo(n), screenshots |-> ShotsUpTo(m)] :
        t \in {"", "Login"}, e \in {"", "Shown"}, a \in {"", " ", "ok"},
        n \in 0..MaxNotes, m \in 0..MaxShots}

\* The step lists, numbered from 1.
ExportLists ==
    UNION {{l \in [1..n -> UNION {ExportSteps(i) : i \in 1..n}] :
                \A i \in 1..n : l[i].index = i} : n \in 1..MaxSteps}

\* What the files of the screenshots are at the time of the export.
FileStates == [{ShotsUpTo(MaxShots)[k] : k \in 1..MaxShots} -> {"ok", "missing", "broken"}]

InitExport ==
    /\ SessionInit
    /\ call \in {[op |-> "export", steps |-> l, done |-> FALSE] : l \in ExportLists}

ExportCall ==
    /\ call.op = "export"
    /\ ~call.done
    /\ \E time \in 1..MaxTime, files \in FileStates, save_ok \in BOOLEAN :
           call' = [op |-> "export", steps |-> call.steps, done |-> TRUE,
                    time |-> time, files |-> files, save_ok |-> save_ok,
                    result |-> export(call.steps, "Report", time, files, save_ok)]
    /\ UNCHANGED session_vars

SpecExport == InitExport /\ [][ExportCall]_vars

Exported == call.op = "export" /\ call.done


\* The heading that opens a step in the document.
StepHeading(step) ==
    Heading("Step " \o IntToStr(step.index) \o ": "
                \o (IF step.title = "" THEN "Untitled" ELSE step.title), 1)

\* The calls of the finished export.
Calls == call.result.calls

\* A step is skipped: the document has no heading for it.
Skipped(step) == \A k \in 1..Len(Calls) : Calls[k] # StepHeading(step)

\* The number of page breaks in the document.
PageBreaks == Cardinality({k \in 1..Len(Calls) : Calls[k] = PageBreak})

\* The five content fields are the empty string or the empty sequence.
AllFieldsEmpty(step) ==
    /\ step.title = "" /\ step.expected = "" /\ step.actual = ""
    /\ step.notes = <<>> /\ step.screenshots = <<>>

\* The three texts are blank and the two sequences are empty.
AllFieldsBlank(step) ==
    /\ Strip(step.title) = "" /\ Strip(step.expected) = "" /\ Strip(step.actual) = ""
    /\ step.notes = <<>> /\ step.screenshots = <<>>

\* The skipped steps are those of the given kind: one page break after the
\* title block and one per other step, nothing but title block and save
\* when every step is of the kind, and the note of a step with a single
\* note and nothing else is a bullet.
SkippedExactly(EmptyStep(_)) ==
    Exported =>
        LET sts == call.steps
        IN  /\ \A i \in 1..Len(sts) : Skipped(sts[i]) <=> EmptyStep(sts[i])
            /\ PageBreaks = 1 + Cardinality({i \in 1..Len(sts) : ~EmptyStep(sts[i])})
            /\ (\A i \in 1..Len(sts) : EmptyStep(sts[i])) => Len(Calls) = 5
            /\ \A i \in 1..Len(sts) :
                   (/\ Len(sts[i].notes) = 1
                    /\ AllFieldsEmpty([sts[i] EXCEPT !.notes = <<>>]))
                       => /\ ~Skipped(sts[i])
                          /\ \E k \in 1..Len(Calls) :
                                 Calls[k] = Paragraph(sts[i].notes[1], "List Bullet")

\* C16 as stated: the exporter skips a step iff its title, expected and
\* actual are the empty string and its notes and screenshots are empty.
C16_SkippedIffAllFieldsEmpty == SkippedExactly(AllFieldsEmpty)

\* C16: the exporter skips a step (no heading, no content, no page break)
\* iff its title, expected and actual are empty after trimming whitespace
\* and its notes and screenshots are empty; a step whose only content is
\* one note is exported and the note is rendered as a bullet.
C16_SkippedIffAllFieldsBlank == SkippedExactly(AllFieldsBlank)

\* A step whose actual is a blank was skipped and the step after it, whose
\* only content is one note, was exported.
C16_BlankSkippedNoteExported ==
    /\ Exported
    /\ Len(call.steps) = 2
    /\ call.steps[1].actual = " "
    /\ AllFieldsBlank(call.steps[1])
    /\ call.steps[2].notes = <<"note1">>
    /\ AllFieldsEmpty([call.steps[2] EXCEPT !.notes = <<>>])
    /\ Calls = <<Heading("Report", 0),
                 Paragraph("Generated: 1", ""),
                 Paragraph("Total Steps: 2", ""),
                 PageBreak,
                 Heading("Step 2: Untitled", 1),
                 Heading("Notes:", 2),
                 Paragraph("note1", "List Bullet"),
                 PageBreak,
                 Save>>


\* The title block: title heading, generation timestamp, total step count.
TitleBlock ==
    <<Heading("Report", 0),
      Paragraph("Generated: " \o IntToStr(call.time), ""),
      Paragraph("Total Steps: " \o IntToStr(Len(call.steps)), "")>>

\* The result block: the table of expected and actual, "N/A" for the one
\* that is empty, and the spacing after it.
ResultBlock(step) ==
    <<Table(IF step.expected = "" THEN "N/A" ELSE step.expected,
            IF step.actual = "" THEN "N/A" ELSE step.actual),
      Paragraph("", "")>>

\* The artifact numbered k: caption, image and spacing; the placeholder
\* when the file is missing; caption, image and the error line when the
\* image does not load.
Artifact(k, path) ==
    LET number == IntToStr(k)
    IN  CASE call.files[path] = "ok" ->
                 <<Paragraph("Screenshot " \o number \o ":", "Caption"),
                   Picture(path), Paragraph("", "")>>
          [] call.files[path] = "missing" ->
                 <<Paragraph("[Screenshot " \o number \o " missing: " \o path \o "]", "")>>
          [] call.files[path] = "broken" ->
                 <<Paragraph("Screenshot " \o number \o ":", "Caption"),
                   Picture(path),
                   Paragraph("[Error loading screenshot " \o number \o "]", "")>>

\* The concatenation of the sequences pieces[from], ..., pieces[Len(pieces)].
RECURSIVE Concat(_, _)
Concat(pieces, from) ==
    IF from > Len(pieces) THEN <<>> ELSE pieces[from] \o Concat(pieces, from + 1)

\* What the document holds for one step that is not empty.
StepBlock(step) ==
    <<StepHeading(step)>>
        \o (IF step.expected # "" \/ step.actual # "" THEN ResultBlock(step) ELSE <<>>)
        \o (IF step.notes # <<>>
            THEN <<Heading("Notes:", 2)>>
                     \o [k \in 1..Len(step.notes) |-> Paragraph(step.notes[k], "List Bullet")]
            ELSE <<>>)
        \o (IF step.screenshots # <<>>
            THEN <<Heading("Screenshots:", 2)>>
                     \o Concat([k \in 1..Len(step.screenshots) |->
                                    Artifact(k, step.screenshots[k])], 1)
            ELSE <<>>)
        \o <<PageBreak>>

\* The blocks of the steps that are not empty, in list order.
StepBlocks ==
    Concat([i \in 1..Len(call.steps) |->
                IF AllFieldsBlank(call.steps[i]) THEN <<>> ELSE StepBlock(call.steps[i])], 1)

\* C17 as stated: the calls of an export are the title block, then the
\* block of each non-empty step ending with one page break, then save.
C17_TitleBlockThenSteps ==
    Exported => Calls = TitleBlock \o StepBlocks \o <<Save>>

\* C17: the calls of an export are the title block followed by one page
\* break, then for each non-empty step in list order its heading, the
\* result block if expected or actual is non-empty, "Notes:" with one
\* bullet per note in insertion order, "Screenshots:" with the artifacts in
\* order numbered from 1, and one page break; save is the last call and is
\* issued once.
C17_TitlePageThenSteps ==
    Exported =>
        /\ Calls = TitleBlock \o <<PageBreak>> \o StepBlocks \o <<Save>>
        /\ Cardinality({k \in 1..Len(Calls) : Calls[k] = Save}) = 1

\* A step with a title, an actual, two notes and two screenshots was
\* exported after an empty one.
C17_FullStepAfterEmptyStep ==
    /\ Exported
    /\ Len(call.steps) = 2
    /\ AllFieldsEmpty(call.steps[1])
    /\ call.files = [path \in {"shot1.png", "shot2.png"} |-> "ok"]
    /\ Calls = <<Heading("Report", 0),
                 Paragraph("Generated: 1", ""),
                 Paragraph("Total Steps: 2", ""),
                 PageBreak,
                 Heading("Step 2: Login", 1),
                 Table("N/A", "ok"),
                 Paragraph("", ""),
                 Heading("Notes:", 2),
                 Paragraph("note1", "List Bullet"),
                 Paragraph("note2", "List Bullet"),
                 Heading("Screenshots:", 2),
                 Paragraph("Screenshot 1:", "Caption"),
                 Picture("shot1.png"),
                 Paragraph("", ""),
                 Paragraph("Screenshot 2:", "Caption"),
                 Picture("shot2.png"),
                 Paragraph("", ""),
                 PageBreak,
                 Save>>


\* The screenshots of the exported steps whose file is missing, as
\* <<step, number>>.
MissingShots ==
    {<<i, k>> \in (1..Len(call.steps)) \X (1..MaxShots) :
        /\ ~AllFieldsBlank(call.steps[i])
        /\ k <= Len(call.steps[i].screenshots)
        /\ call.files[call.steps[i].screenshots[k]] = "missing"}

\* The calls from the heading of the i-th step to its page break.
StepCalls(i) ==
    LET from == CHOOSE k \in 1..Len(Calls) : Calls[k] = StepHeading(call.steps[i])
        to == CHOOSE k \in from..Len(Calls) :
                  /\ Calls[k] = PageBreak
                  /\ \A j \in from..(k - 1) : Calls[j] # PageBreak
    IN  SubSeq(Calls, from, to)

\* The placeholder line of the k-th screenshot of a step.
Placeholder(k, path) ==
    Paragraph("[Screenshot " \o IntToStr(k) \o " missing: " \o path \o "]", "")

\* C18: for a screenshot whose file is missing at export time the document
\* has the placeholder naming it and neither caption nor image of it, every
\* step and every other screenshot is still rendered, the export returns
\* what the save returns, and the steps keep their screenshots.
C18_MissingScreenshotPlaceholder ==
    (Exported /\ MissingShots # {}) =>
        /\ \A shot \in MissingShots :
               LET step == call.steps[shot[1]]
                   path == step.screenshots[shot[2]]
                   part == StepCalls(shot[1])
               IN  /\ \E k \in 1..Len(part) : part[k] = Placeholder(shot[2], path)
                   /\ \A k \in 1..Len(part) :
                          /\ part[k] # Picture(path)
                          /\ part[k] # Paragraph("Screenshot " \o IntToStr(shot[2]) \o ":",
                                                 "Caption")
        /\ \A i \in 1..Len(call.steps) :
               ~AllFieldsBlank(call.steps[i]) =>
                   /\ ~Skipped(call.steps[i])
                   /\ \A k \in 1..Len(call.steps[i].screenshots) :
                          call.files[call.steps[i].screenshots[k]] # "missing"
                              => \E j \in 1..Len(StepCalls(i)) :
                                     StepCalls(i)[j] = Picture(call.steps[i].screenshots[k])
        /\ Calls[Len(Calls)] = Save
        /\ call.result.ok = call.save_ok
        /\ call.result.steps = call.steps

\* The first screenshot of the first step was missing, the second was
\* there, the second step was rendered and the export succeeded.
C18_MissingThenPresent ==
    /\ Exported
    /\ Len(call.steps) = 2
    /\ call.steps[1].screenshots = <<"shot1.png", "shot2.png">>
    /\ call.steps[2].notes = <<"note1">>
    /\ call.files = [path \in {"shot1.png", "shot2.png"} |->
                         IF path = "shot1.png" THEN "missing" ELSE "ok"]
    /\ call.result.ok
    /\ call.result.steps = call.steps
    /\ \E k \in 1..Len(Calls) :
           /\ Calls[k] = Paragraph("[Screenshot 1 missing: shot1.png]", "")
           /\ Calls[k + 1] = Paragraph("Screenshot 2:", "Caption")
           /\ Calls[k + 2] = Picture("shot2.png")
    /\ ~Skipped(call.steps[2])


-----------------------------------------------------------------------------
(* The methods of Step on the steps a session can hold.                    *)

\* The texts handed to add_note: empty, blank, plain, padded.
NoteTexts == {"", " ", "\n \t", "seen", " seen\n", "a b"}

\* The paths handed to add_screenshot and os.path.exists of each; the
\* empty path names no file.
ShotArguments ==
    {[path |-> p, exists |-> x] : p \in {"shot3.png", "shot1.png"}, x \in BOOLEAN}
        \cup {[path |-> "", exists |-> FALSE]}

InitStep ==
    /\ SessionInit
    /\ call \in {[op |-> "add_note", step |-> st, text |-> t, done |-> FALSE] :
                    st \in ExportSteps(1), t \in NoteTexts}
            \cup {[op |-> "add_screenshot", step |-> st, path |-> a.path,
                   exists |-> a.exists, done |-> FALSE] :
                    st \in ExportSteps(1), a \in ShotArguments}

NoteCall ==
    /\ call.op = "add_note"
    /\ ~call.done
    /\ call' = [op |-> "add_note", step |-> call.step, text |-> call.text,
                done |-> TRUE, after |-> add_note(call.step, call.text)]
    /\ UNCHANGED session_vars

ScreenshotCall ==
    /\ call.op = "add_screenshot"
    /\ ~call.done
    /\ LET r == add_screenshot(call.step, call.path, call.exists)
       IN  call' = [op |-> "add_screenshot", step |-> call.step, path |-> call.path,
                    exists |-> call.exists, done |-> TRUE,
                    after |-> r.step, ok |-> r.ok]
    /\ UNCHANGED session_vars

SpecStep == InitStep /\ [][NoteCall \/ ScreenshotCall]_vars

NoteAdded == call.op = "add_note" /\ call.done

\* add_note leaves the step with its notes followed by the given entry
\* when the text is not blank, and as it was otherwise.
NoteAppended(entry) ==
    IF Strip(call.text) # ""
    THEN call.after = [call.step EXCEPT !.notes = call.step.notes \o <<entry>>]
    ELSE call.after = call.step

\* C19 as stated: the entry appended by add_note(text) is text.
C19_NoteIsText == NoteAdded => NoteAppended(call.text)

\* C19: add_note(text) appends one entry iff text is not blank, the entry
\* is text without its leading and trailing whitespace, and no other field
\* of the step changes; for a blank text the step is unchanged.
C19_NoteIsTrimmedText == NoteAdded => NoteAppended(Strip(call.text))

\* A padded text was added to a step that had a note.
C19_PaddedNoteAdded ==
    /\ NoteAdded
    /\ call.text = " seen\n"
    /\ call.step.notes = <<"note1">>
    /\ call.after.notes = <<"note1", "seen">>

ScreenshotAdded == call.op = "add_screenshot" /\ call.done

\* C20: add_screenshot(ref) returns success and appends ref to the
\* screenshots iff the file exists at the call; otherwise it returns
\* failure and the step is unchanged.
C20_ScreenshotIffExists ==
    ScreenshotAdded =>
        IF call.exists
        THEN /\ call.ok
             /\ call.after = [call.step EXCEPT
                                 !.screenshots = call.step.screenshots \o <<call.path>>]
        ELSE /\ ~call.ok
             /\ call.after = call.step

\* A path whose file is gone was refused by a step that had a screenshot.
C20_MissingFileRefused ==
    /\ ScreenshotAdded
    /\ call.path = "shot3.png"
    /\ ~call.exists
    /\ ~call.ok
    /\ call.step.screenshots = <<"shot1.png">>
    /\ call.after.screenshots = <<"shot1.png">>


-----------------------------------------------------------------------------
(* Captures and the text in the editor.                                    *)

\* The editor holds text that is not in the current step yet.
PendingText == actual_edit # "" /\ actual_edit # CurrentStep.actual

\* C21: a capture that records something on the current step keeps the
\* text typed in the editor and not yet flushed: after it the current
\* step's actual and the editor both contain that text.
C21_CaptureKeepsPendingText ==
    [][\A c \in Clipboards, time \in 1..MaxTime, save_ok \in BOOLEAN, exists \in BOOLEAN :
           (/\ session_active
            /\ PendingText
            /\ DispatchCapture(c, time, save_ok, exists)
            /\ steps' # steps)
               => /\ Contains(CapturedStep.actual, actual_edit)
                  /\ Contains(actual_edit', actual_edit)]_vars


-----------------------------------------------------------------------------
(* The frame of the navigation.                                            *)

\* A step of on_next_step, by the button or the hotkey of a running session.
NextStepTaken == ClickNext \/ (session_active /\ DispatchNext)

\* A step of on_prev_step, by the button or the hotkey of a running session.
PrevStepTaken == ClickPrev \/ (session_active /\ DispatchPrev)

\* The steps of before are all there, in their places, each with its index,
\* title, expected, notes and screenshots.
StepsKeptInPlace ==
    /\ Len(steps') >= Len(steps)
    /\ \A j \in 1..Len(steps) : [steps'[j] EXCEPT !.actual = ""] = [steps[j] EXCEPT !.actual = ""]

\* C22: on_next_step moves the cursor by one and keeps the length when the
\* cursor is not at the last step, and at the last step appends one step
\* with the new length as index and no content and moves to it;
\* on_prev_step moves the cursor back by one, or leaves it at 0; neither
\* removes or reorders steps.
C22_NavigationFrame ==
    [][/\ NextStepTaken =>
            /\ StepsKeptInPlace
            /\ IF current_step_idx < Len(steps) - 1
               THEN /\ current_step_idx' = current_step_idx + 1
                    /\ Len(steps') = Len(steps)
               ELSE /\ Len(steps') = Len(steps) + 1
                    /\ steps'[Len(steps')] =
                           [index |-> Len(steps'), title |-> "", expected |-> "",
                            actual |-> "", notes |-> <<>>, screenshots |-> <<>>]
                    /\ current_step_idx' = Len(steps') - 1
       /\ PrevStepTaken =>
            /\ StepsKeptInPlace
            /\ Len(steps') = Len(steps)
            /\ current_step_idx' =
                   IF current_step_idx > 0 THEN current_step_idx - 1 ELSE 0]_vars

\* A step was appended after the one loaded from a table, and the cursor
\* went back to the loaded one.
C22_AppendedAfterLoadedStep ==
    /\ Len(steps) = 2
    /\ steps[1].title = "Login"
    /\ steps[2] = Step(2, "", "", "")
    /\ current_step_idx = 0


-----------------------------------------------------------------------------
(* Captures of every short text, with no image on the clipboard: no file   *)
(* is written, so img.save and os.path.exists have no part.                *)

\* The clipboards without an image.
TextClipboards == {[img |-> "none", text |-> t] : t \in TextsUpTo(MaxText)}

NextCaptureText ==
    \/ on_start_session
    \/ \E text \in EditorTexts : EditText(text)
    \/ on_editor_focus_out
    \/ PressKey("capture")
    \/ \E c \in TextClipboards, time \in 1..MaxTime :
           DispatchCapture(c, time, TRUE, TRUE)

SpecCaptureText == Init /\ [][NextCaptureText]_vars

\* The capture recorded the text as a plain-text note.
RecordedAsText(text) ==
    /\ CapturedStep.notes = Append(CurrentStep.notes, Strip(text))
    /\ CapturedStep.actual =
           (IF CurrentStep.actual = "" THEN "" ELSE CurrentStep.actual \o "\n") \o text

\* The capture recorded the text as the single-column "Step" table of its
\* lines.
RecordedAsStepTable(text) ==
    LET table_text == to_string(StepTable(text))
    IN  /\ CapturedStep.notes = Append(CurrentStep.notes, "[Table Data]\n" \o table_text)
        /\ CapturedStep.actual =
               (IF CurrentStep.actual = "" THEN "" ELSE CurrentStep.actual \o "\n\n")
                   \o "[Pasted Table]\n" \o table_text
        /\ CapturedStep.notes[Len(CapturedStep.notes)] # text

\* A handled capture records a text as a plain-text note only when the
\* parser gives no table or one without rows, and records every text
\* of the given kind without tab and comma as a "Step" table.
TableBeforeText(Recordable(_)) ==
    \A c \in TextClipboards, time \in 1..MaxTime :
        (session_active /\ DispatchCapture(c, time, TRUE, TRUE)) =>
            LET frame == parse_excel_from_clipboard(c.text)
            IN  /\ RecordedAsText(c.text) => (frame = None \/ Len(frame.rows) = 0)
                /\ (/\ Recordable(c.text)
                    /\ ~Contains(c.text, "\t")
                    /\ ~Contains(c.text, ","))
                       => RecordedAsStepTable(c.text)

NonEmptyText(text) == text # ""

NonBlankText(text) == Strip(text) # ""

\* C23 as stated: every non-empty text without tab and comma is recorded
\* through the table branch.
C23_NonEmptyTextIsStepTable == [][TableBeforeText(NonEmptyText)]_vars

\* C23: with no image on the clipboard the plain-text branch records only
\* when the parser returns no table or a table without rows, and every
\* text that is not blank and has neither tab nor comma is recorded as a
\* single-column "Step" table, never as a plain-text note.
C23_NonBlankTextIsStepTable == [][TableBeforeText(NonBlankText)]_vars

\* Two lines were captured as a table of two rows on a step whose actual
\* was "ok".
C23_TwoLinesCapturedAsTable ==
    /\ session_active
    /\ CurrentStep.notes = <<"[Table Data]\nStep\na\na">>
    /\ CurrentStep.actual = "ok\n\n[Pasted Table]\nStep\na\na"

=============================================================================
